---- MODULE Spec2Model ----
(***************************************************************************)
(* Model of rust-qr/src/lib.rs: the QR decoding entry point               *)
(* decode_qr_from_image (with rgba_to_gray) and the MRZ parser            *)
(* parse_mrz_text (with parse_td1/2/3, pad_line, extract_field and        *)
(* extract_names).                                                         *)
(*                                                                         *)
(* Both entry points are stateless functions of their arguments.  The      *)
(* state of the model is the last call of each entry point together with   *)
(* what that call gave back to the caller: a value, an error, or a panic   *)
(* (a Rust panic aborts the call; the WASM caller sees a trap).            *)
(***************************************************************************)
EXTENDS Integers, Sequences, FiniteSets, TLC

VARIABLES
    qrCall,     \* arguments of the last decode_qr_from_image call, or NoCall
    qrResult,   \* what that call gave back
    mrzCall,    \* argument of the last parse_mrz_text call, or NoCall
    mrzResult   \* what that call gave back

vars == <<qrCall, qrResult, mrzCall, mrzResult>>

NoCall == [tag |-> "NoCall"]

(***************************************************************************)
(* u32 arithmetic.  A u32 does not fit the model checker's integers, so    *)
(* numbers that take part in width * height * 4 are little-endian          *)
(* sequences of base-256 digits; a u32 is four such digits.                *)
(***************************************************************************)

\* The four base-256 digits of a natural number below 2^31.
ToDigits(n) == [i \in 1..4 |-> (n \div (256 ^ (i - 1))) % 256]

\* d extended with zero digits to n digits.
PadDigits(d, n) == [i \in 1..n |-> IF i <= Len(d) THEN d[i] ELSE 0]

RECURSIVE SumTerms(_, _, _, _)
\* Sum of a[i] * b[k - i + 1] over the i from `i` up for which both exist.
SumTerms(a, b, k, i) ==
    IF i > Len(a) THEN 0
    ELSE (IF k - i + 1 >= 1 /\ k - i + 1 <= Len(b) THEN a[i] * b[k - i + 1] ELSE 0)
         + SumTerms(a, b, k, i + 1)

RECURSIVE Carry(_, _, _, _, _)
\* Digits k.. of the product of a and b, with `carry` coming in.
Carry(a, b, k, n, carry) ==
    IF k > n THEN <<>>
    ELSE LET t == SumTerms(a, b, k, 1) + carry
         IN  <<t % 256>> \o Carry(a, b, k + 1, n, t \div 256)

\* The exact product of two digit sequences, Len(a) + Len(b) digits.
BigMul(a, b) == Carry(a, b, 1, Len(a) + Len(b), 0)

\* The low four digits: the value a wrapping u32 multiplication keeps.
U32Wrap(d) == SubSeq(d, 1, 4)

\* Whether a product does not fit a u32.
U32Overflows(d) == \E i \in 5..Len(d) : d[i] # 0

RECURSIVE BigLessFrom(_, _, _)
BigLessFrom(a, b, i) ==
    IF i = 0 THEN FALSE
    ELSE IF a[i] # b[i] THEN a[i] < b[i]
    ELSE BigLessFrom(a, b, i - 1)

\* a < b for digit sequences of any lengths.
BigLess(a, b) ==
    LET n == IF Len(a) > Len(b) THEN Len(a) ELSE Len(b)
    IN  BigLessFrom(PadDigits(a, n), PadDigits(b, n), n)

\* width * height * 4 as the u32 expression of rgba_to_gray evaluates it in a
\* build without overflow checks.
WrappedSize(width, height) ==
    U32Wrap(BigMul(U32Wrap(BigMul(ToDigits(width), ToDigits(height))), ToDigits(4)))

\* Whether evaluating width * height * 4 overflows a u32 at either product.
SizeOverflows(width, height) ==
    LET wh == BigMul(ToDigits(width), ToDigits(height))
    IN  U32Overflows(wh) \/ U32Overflows(BigMul(U32Wrap(wh), ToDigits(4)))

\* Whether the conversion loop reads rgba[idx], idx = (y*width + x)*4, past
\* the end of a buffer of len bytes.  Pixels are visited in increasing
\* y*width + x; the first pixel whose idx reaches len is pixel len / 4, and the
\* loop gets there exactly when the image has more than len / 4 pixels.
IndexOutOfBounds(len, width, height) ==
    BigLess(ToDigits(len \div 4), BigMul(ToDigits(width), ToDigits(height)))

\* rgba_to_gray on a buffer of len bytes.  debug is the build's
\* debug_assertions setting: with it an overflowing multiplication panics,
\* without it the multiplication wraps.  Once the length check has passed
\* on a wrapped product, the call cannot return: the pixel loop reads past
\* the buffer (or ImageBuffer::new fails to allocate before it), and either
\* way the call aborts.
rgba_to_gray(len, width, height, debug) ==
    IF debug /\ SizeOverflows(width, height)
    THEN [tag |-> "Panic", at |-> "multiply with overflow"]
    ELSE IF ToDigits(len) # WrappedSize(width, height)
    THEN [tag |-> "Err", kind |-> "InvalidBufferSize",
          expected |-> WrappedSize(width, height), actual |-> len]
    ELSE IF IndexOutOfBounds(len, width, height)
    THEN [tag |-> "Panic", at |-> "index out of bounds"]
    ELSE [tag |-> "Ok", width |-> width, height |-> height]

(***************************************************************************)
(* The detector and the symbol decoder are external (rqrr).  A grid is     *)
(* what detect_grids returns for one candidate: its four corner points     *)
(* and the outcome grid.decode() will have.                                *)
(***************************************************************************)

\* i32 -> f64: every i32 is exactly representable.
AsF64(n) == n

\* One grid to its QRCodeResult: bounds mapped point by point.
ToResult(grid) ==
    [data    |-> grid.content,
     version |-> grid.version,
     bounds  |-> [i \in 1..Len(grid.bounds) |->
                     <<AsF64(grid.bounds[i][1]), AsF64(grid.bounds[i][2])>>]]

RECURSIVE DecodeGridsUntilFailure(_, _)
\* The loop as it would be if a failed decode ended it.
DecodeGridsUntilFailure(grids, results) ==
    IF grids = <<>> THEN results
    ELSE IF Head(grids).decodes
         THEN DecodeGridsUntilFailure(Tail(grids), Append(results, ToResult(Head(grids))))
         ELSE results

RECURSIVE DecodeGrids(_, _)
\* The loop `for grid in grids`: a decoded grid is pushed, a failed one logged.
DecodeGrids(grids, results) ==
    IF grids = <<>> THEN results
    ELSE IF Head(grids).decodes
         THEN DecodeGrids(Tail(grids), Append(results, ToResult(Head(grids))))
         ELSE DecodeGrids(Tail(grids), results)

\* decode_qr_from_image on a buffer of len bytes whose full frame makes the
\* detector return `grids`.
decode_qr_from_image(len, width, height, debug, grids) ==
    LET gray == rgba_to_gray(len, width, height, debug)
    IN  IF gray.tag = "Err"
        THEN [tag |-> "Err", kind |-> gray.kind,
              expected |-> gray.expected, actual |-> gray.actual]
        ELSE IF gray.tag = "Panic" THEN gray
        ELSE [tag |-> "Ok", results |-> DecodeGrids(grids, <<>>)]

(***************************************************************************)
(* Rust strings.  A &str is a sequence of UTF-8 bytes; len() counts bytes  *)
(* and a slice line[a..b] takes byte offsets and panics when an offset     *)
(* falls inside a multi-byte character.  An ASCII byte is written as its   *)
(* character; the two bytes of U+00C9 are "C3" "89" and those of U+00E9    *)
(* are "C3" "A9".                                                          *)
(***************************************************************************)

\* What a string operation yields when it panics; no input holds this byte.
PANIC == <<"!panic">>

\* UTF-8 continuation bytes (0x80..0xBF) of the model's alphabet.
IsContinuation(b) == b \in {"89", "A9"}

\* str::is_char_boundary
is_char_boundary(s, i) ==
    \/ i = 0
    \/ i = Len(s)
    \/ i < Len(s) /\ ~IsContinuation(s[i + 1])

\* s.chars().count()
CharCount(s) == Cardinality({i \in 1..Len(s) : ~IsContinuation(s[i])})

\* &s[start..end]
Slice(s, start, end) ==
    IF start <= end /\ end <= Len(s)
       /\ is_char_boundary(s, start) /\ is_char_boundary(s, end)
    THEN SubSeq(s, start + 1, end)
    ELSE PANIC

\* n copies of byte b.
Repeat(b, n) == [i \in 1..n |-> b]

\* str::replace of a one-byte character by a one-byte character.
ReplaceByte(s, from, to) == [i \in 1..Len(s) |-> IF s[i] = from THEN to ELSE s[i]]

\* str::replace of a one-byte character by the empty string.
RemoveByte(s, b) == SelectSeq(s, LAMBDA x : x # b)

\* char::is_whitespace on the model's alphabet.
IsWhitespace(b) == b \in {" ", "\t", "\r", "\n"}

RECURSIVE TrimStart(_)
TrimStart(s) ==
    IF s # <<>> /\ IsWhitespace(Head(s)) THEN TrimStart(Tail(s)) ELSE s

RECURSIVE TrimEnd(_)
TrimEnd(s) ==
    IF s # <<>> /\ IsWhitespace(s[Len(s)])
    THEN TrimEnd(SubSeq(s, 1, Len(s) - 1)) ELSE s

\* str::trim
Trim(s) == TrimEnd(TrimStart(s))

RECURSIVE trim_end_matches(_, _)
\* str::trim_end_matches for a one-byte pattern.
trim_end_matches(s, b) ==
    IF s # <<>> /\ s[Len(s)] = b
    THEN trim_end_matches(SubSeq(s, 1, Len(s) - 1), b) ELSE s

LowerCase ==
    <<"a", "b", "c", "d", "e", "f", "g", "h", "i", "j", "k", "l", "m",
      "n", "o", "p", "q", "r", "s", "t", "u", "v", "w", "x", "y", "z">>

UpperCase ==
    <<"A", "B", "C", "D", "E", "F", "G", "H", "I", "J", "K", "L", "M",
      "N", "O", "P", "Q", "R", "S", "T", "U", "V", "W", "X", "Y", "Z">>

\* Upper case of one byte: a..z to A..Z, and the second byte of U+00E9 to
\* that of U+00C9 (the first byte, "C3", is shared).
UpperByte(b) ==
    IF \E i \in 1..Len(LowerCase) : LowerCase[i] = b
    THEN UpperCase[CHOOSE i \in 1..Len(LowerCase) : LowerCase[i] = b]
    ELSE IF b = "A9" THEN "89"
    ELSE b

\* str::to_uppercase
to_uppercase(s) == [i \in 1..Len(s) |-> UpperByte(s[i])]

\* The offsets (from 1) of the newlines of a text, in increasing order.
NewlineOffsets(text) ==
    LET nl == {i \in 1..Len(text) : text[i] = "\n"}
    IN  [k \in 1..Cardinality(nl) |->
            CHOOSE i \in nl : Cardinality({j \in nl : j < i}) = k - 1]

\* str::split_inclusive('\n'): pieces that each end with their newline,
\* except a last piece without one, which is left out when empty.
SplitInclusive(text) ==
    LET nl == NewlineOffsets(text)
        ended == [k \in 1..Len(nl) |->
                     SubSeq(text, (IF k = 1 THEN 0 ELSE nl[k - 1]) + 1, nl[k])]
        last == SubSeq(text, (IF nl = <<>> THEN 0 ELSE nl[Len(nl)]) + 1, Len(text))
    IN  IF last = <<>> THEN ended ELSE Append(ended, last)

\* One piece without its "\n", and without the "\r" before that "\n".
StripLineEnd(piece) ==
    IF piece # <<>> /\ piece[Len(piece)] = "\n"
    THEN LET l == SubSeq(piece, 1, Len(piece) - 1)
         IN  IF l # <<>> /\ l[Len(l)] = "\r" THEN SubSeq(l, 1, Len(l) - 1) ELSE l
    ELSE piece

\* str::lines
Lines(text) ==
    LET pieces == SplitInclusive(text)
    IN  [i \in 1..Len(pieces) |-> StripLineEnd(pieces[i])]

\* The closure of parse_mrz_text's map: trim, upper case, drop spaces.
CleanLine(l) == RemoveByte(to_uppercase(Trim(l)), " ")

\* The filter of parse_mrz_text: non-empty and at least 20 bytes.
KeepLine(l) == l # <<>> /\ Len(l) >= 20

\* The lines parse_mrz_text collects.
MrzLines(text) ==
    LET lines == Lines(text)
    IN  SelectSeq([i \in 1..Len(lines) |-> CleanLine(lines[i])], KeepLine)

\* pad_line: the first `length` bytes of a line that has them, else the
\* line left-aligned in `length` characters (format! pads with spaces and
\* counts characters).
pad_line(line, length) ==
    IF Len(line) >= length
    THEN Slice(line, 0, length)
    ELSE line \o Repeat(" ", length - CharCount(line))

\* extract_field
extract_field(line, start, end) ==
    IF line = PANIC THEN PANIC
    ELSE IF start >= Len(line) THEN <<>>
    ELSE Slice(line, start, IF end < Len(line) THEN end ELSE Len(line))

RECURSIVE SplitFiller2(_, _)
\* str::split("<<"): matches are found left to right and do not overlap.
SplitFiller2(s, cur) ==
    IF s = <<>> THEN <<cur>>
    ELSE IF Len(s) >= 2 /\ s[1] = "<" /\ s[2] = "<"
         THEN <<cur>> \o SplitFiller2(SubSeq(s, 3, Len(s)), <<>>)
         ELSE SplitFiller2(Tail(s), Append(cur, Head(s)))

\* s.replace('<', " ").trim().replace('0', "O")
CleanName(s) == ReplaceByte(Trim(ReplaceByte(s, "<", " ")), "0", "O")

\* extract_names as it would be without the correction of digit 0.
extract_names_uncorrected(name_field) ==
    LET parts == SplitFiller2(name_field, <<>>)
        clean(x) == Trim(ReplaceByte(x, "<", " "))
    IN  <<clean(parts[1]), IF Len(parts) >= 2 THEN clean(parts[2]) ELSE <<>>>>

\* extract_names: <<surname, given_names>>
extract_names(name_field) ==
    LET parts == SplitFiller2(name_field, <<>>)
    IN  <<CleanName(parts[1]),
          IF Len(parts) >= 2 THEN CleanName(parts[2]) ELSE <<>>>>

\* The string fields of an MRZResult.
StringFields ==
    {"document_type", "document_number", "date_of_birth", "date_of_expiry",
     "nationality", "sex", "surname", "given_names", "optional_data",
     "issuing_country"}

\* A panic while any field or line was computed aborts the whole call.
Finish(rec) ==
    IF \/ \E f \in StringFields : rec[f] = PANIC
       \/ \E i \in 1..Len(rec.raw_mrz) : rec.raw_mrz[i] = PANIC
    THEN [tag |-> "Panic", at |-> "byte index is not a char boundary"]
    ELSE [tag |-> "Ok", value |-> rec]

\* parse_td1.  confidence is in hundredths (0.75).
parse_td1(lines) ==
    LET line1 == pad_line(lines[1], 30)
        line2 == pad_line(lines[2], 30)
        line3 == pad_line(lines[3], 30)
    IN  Finish(
        [document_type   |-> <<"T", "D", "1">>,
         document_number |-> trim_end_matches(extract_field(line1, 5, 14), "<"),
         issuing_country |-> extract_field(line1, 2, 5),
         date_of_birth   |-> ReplaceByte(extract_field(line2, 0, 6), "O", "0"),
         sex             |-> extract_field(line2, 7, 8),
         date_of_expiry  |-> extract_field(line2, 8, 14),
         nationality     |-> extract_field(line2, 15, 18),
         optional_data   |-> trim_end_matches(extract_field(line1, 15, 30), "<"),
         surname         |-> extract_names(line3)[1],
         given_names     |-> extract_names(line3)[2],
         raw_mrz         |-> <<line1, line2, line3>>,
         confidence      |-> 75])

\* parse_td2
parse_td2(lines) ==
    LET line1 == pad_line(lines[1], 36)
        line2 == pad_line(lines[2], 36)
        names == extract_names(extract_field(line1, 5, 36))
    IN  Finish(
        [document_type   |-> <<"T", "D", "2">>,
         issuing_country |-> extract_field(line1, 2, 5),
         surname         |-> names[1],
         given_names     |-> names[2],
         document_number |-> trim_end_matches(extract_field(line2, 0, 9), "<"),
         nationality     |-> extract_field(line2, 10, 13),
         date_of_birth   |-> ReplaceByte(extract_field(line2, 13, 19), "O", "0"),
         sex             |-> extract_field(line2, 20, 21),
         date_of_expiry  |-> extract_field(line2, 21, 27),
         optional_data   |-> trim_end_matches(extract_field(line2, 28, 35), "<"),
         raw_mrz         |-> <<line1, line2>>,
         confidence      |-> 75])

\* parse_td3 as it would be with the offsets of its second line counted from 1.
parse_td3_from_one(lines) ==
    LET line1 == pad_line(lines[1], 44)
        line2 == pad_line(lines[2], 44)
        names == extract_names(extract_field(line1, 5, 44))
    IN  Finish(
        [document_type   |-> <<"T", "D", "3">>,
         issuing_country |-> extract_field(line1, 2, 5),
         surname         |-> names[1],
         given_names     |-> names[2],
         document_number |-> trim_end_matches(extract_field(line2, 1, 10), "<"),
         nationality     |-> extract_field(line2, 11, 14),
         date_of_birth   |-> ReplaceByte(extract_field(line2, 14, 20), "O", "0"),
         sex             |-> extract_field(line2, 21, 22),
         date_of_expiry  |-> extract_field(line2, 22, 28),
         optional_data   |-> trim_end_matches(extract_field(line2, 29, 43), "<"),
         raw_mrz         |-> <<line1, line2>>,
         confidence      |-> 75])

\* parse_td3
parse_td3(lines) ==
    LET line1 == pad_line(lines[1], 44)
        line2 == pad_line(lines[2], 44)
        names == extract_names(extract_field(line1, 5, 44))
    IN  Finish(
        [document_type   |-> <<"T", "D", "3">>,
         issuing_country |-> extract_field(line1, 2, 5),
         surname         |-> names[1],
         given_names     |-> names[2],
         document_number |-> trim_end_matches(extract_field(line2, 0, 9), "<"),
         nationality     |-> extract_field(line2, 10, 13),
         date_of_birth   |-> ReplaceByte(extract_field(line2, 13, 19), "O", "0"),
         sex             |-> extract_field(line2, 20, 21),
         date_of_expiry  |-> extract_field(line2, 21, 27),
         optional_data   |-> trim_end_matches(extract_field(line2, 28, 42), "<"),
         raw_mrz         |-> <<line1, line2>>,
         confidence      |-> 75])

\* parse_mrz_from_lines
parse_mrz_from_lines(lines) ==
    IF lines = <<>> THEN [tag |-> "Err", kind |-> "NoLines", count |-> 0]
    ELSE IF Len(lines) = 2
         THEN (IF Len(lines[1]) >= 40 THEN parse_td3(lines) ELSE parse_td2(lines))
    ELSE IF Len(lines) = 3 THEN parse_td1(lines)
    ELSE [tag |-> "Err", kind |-> "InvalidFormat", count |-> Len(lines)]

\* parse_mrz_text.  The two error strings of the source are the kinds
\* NoValidLines ("No valid MRZ lines found") and UnsupportedLineCount
\* ("Failed to parse MRZ: Invalid MRZ format: {count} lines").
parse_mrz_text(mrz_text) ==
    LET mrz_lines == MrzLines(mrz_text)
    IN  IF mrz_lines = <<>>
        THEN [tag |-> "Err", kind |-> "NoValidLines", count |-> 0]
        ELSE LET result == parse_mrz_from_lines(mrz_lines)
             IN  IF result.tag = "Err"
                 THEN [tag |-> "Err", kind |-> "UnsupportedLineCount",
                       count |-> result.count]
                 ELSE result

(***************************************************************************)
(* Inputs of decode_qr_from_image.                                         *)
(***************************************************************************)

\* Most grids the detector returns for one frame.
MaxGrids == 3

\* Widths and heights.  65536 * 65536 * 4 and 16385 * 65536 * 4 do not fit a
\* u32: the first wraps to 0, the second to 262144.
Dims == {2, 400, 16385, 65536}

\* Buffer lengths; 640000 = 400 * 400 * 4.
BufferLens == {0, 8, 16, 262144, 640000}

GridA ==
    [decodes |-> TRUE, content |-> "A", version |-> 1,
     bounds |-> <<<<10, 10>>, <<30, 10>>, <<30, 30>>, <<10, 30>>>>]

GridB ==
    [decodes |-> TRUE, content |-> "B", version |-> 40,
     bounds |-> <<<<-1, 2>>, <<176, 3>>, <<175, 180>>, <<0, 179>>>>]

\* A candidate whose decode() fails; it has no content and no version.
GridBad ==
    [decodes |-> FALSE, content |-> "", version |-> 0,
     bounds |-> <<<<5, 6>>, <<7, 6>>, <<7, 8>>, <<5, 8>>>>]

GridPool == {GridA, GridB, GridBad}

\* Every list of at most MaxGrids candidates.
GridLists == UNION {[1..k -> GridPool] : k \in 0..MaxGrids}

\* What the frame holds beyond what the full-frame detector sees: the
\* payload the detector and decoder would give on the crop of region
\* (row, col) upscaled by scale (in tenths), "" for none.
Tiles == {<<r, c, sc>> : r \in {0, 1}, c \in {0, 1}, sc \in {15, 20, 25}}

NoTileCodes == [t \in Tiles |-> ""]

TwoTileCodes ==
    [t \in Tiles |-> IF t = <<0, 1, 20>> THEN "FIRST"
                     ELSE IF t = <<1, 1, 15>> THEN "SECOND" ELSE ""]

TileScenes == {NoTileCodes, TwoTileCodes}

(***************************************************************************)
(* Inputs of parse_mrz_text.                                               *)
(***************************************************************************)

\* "P<UTOERIKSSON<<ANNA<MARIA<<<<<<<<<<<<<<<<<<<" (44 bytes)
TD3Line1 ==
    <<"P", "<", "U", "T", "O", "E", "R", "I", "K", "S", "S", "O", "N", "<",
      "<", "A", "N", "N", "A", "<", "M", "A", "R", "I", "A", "<", "<", "<",
      "<", "<", "<", "<", "<", "<", "<", "<", "<", "<", "<", "<", "<", "<",
      "<", "<">>

\* "L898902C36UTO7408122F1204159ZE184226B<<<<<10" (44 bytes)
TD3Line2 ==
    <<"L", "8", "9", "8", "9", "0", "2", "C", "3", "6", "U", "T", "O", "7",
      "4", "0", "8", "1", "2", "2", "F", "1", "2", "0", "4", "1", "5", "9",
      "Z", "E", "1", "8", "4", "2", "2", "6", "B", "<", "<", "<", "<", "<",
      "1", "0">>

\* "I<UTOERIKSSON<<ANNA<MARIA<<<<<<<<<<<" (36 bytes)
TD2Line1 ==
    <<"I", "<", "U", "T", "O", "E", "R", "I", "K", "S", "S", "O", "N", "<",
      "<", "A", "N", "N", "A", "<", "M", "A", "R", "I", "A", "<", "<", "<",
      "<", "<", "<", "<", "<", "<", "<", "<">>

\* "D231458907UTO7408122F1204159<<<<<<<6" (36 bytes)
TD2Line2 ==
    <<"D", "2", "3", "1", "4", "5", "8", "9", "0", "7", "U", "T", "O", "7",
      "4", "0", "8", "1", "2", "2", "F", "1", "2", "0", "4", "1", "5", "9",
      "<", "<", "<", "<", "<", "<", "<", "6">>

\* "I<UTOD231458907<<<<<<<<<<<<<<<" (30 bytes)
TD1Line1 ==
    <<"I", "<", "U", "T", "O", "D", "2", "3", "1", "4", "5", "8", "9", "0",
      "7", "<", "<", "<", "<", "<", "<", "<", "<", "<", "<", "<", "<", "<",
      "<", "<">>

\* "7408122F1204159UTO<<<<<<<<<<<6" (30 bytes)
TD1Line2 ==
    <<"7", "4", "0", "8", "1", "2", "2", "F", "1", "2", "0", "4", "1", "5",
      "9", "U", "T", "O", "<", "<", "<", "<", "<", "<", "<", "<", "<", "<",
      "<", "6">>

\* "ERIKSSON<<ANNA<MARIA<<<<<<<<<<" (30 bytes)
TD1Line3 ==
    <<"E", "R", "I", "K", "S", "S", "O", "N", "<", "<", "A", "N", "N", "A",
      "<", "M", "A", "R", "I", "A", "<", "<", "<", "<", "<", "<", "<", "<",
      "<", "<">>

\* "  p<utoerikss0n<<anna<maria <<<<jr<<<<<<<<<<<<<\t": the first specimen
\* line as a careless OCR pass writes it, with a digit 0 in the surname and
\* a third name segment.
MessyLine1 ==
    <<" ", " ", "p", "<", "u", "t", "o", "e", "r", "i", "k", "s", "s", "0",
      "n", "<", "<", "a", "n", "n", "a", "<", "m", "a", "r", "i", "a", " ",
      "<", "<", "<", "<", "j", "r", "<", "<", "<", "<", "<", "<", "<", "<",
      "<", "<", "<", "<", "<", "\t">>

\* A line too short to survive the filter.
NoiseLine == <<"h", "e", "l", "l", "o">>

\* The specimen documents: TD3, TD2, TD1.
Bases ==
    <<<<TD3Line1, TD3Line2>>, <<TD2Line1, TD2Line2>>,
      <<TD1Line1, TD1Line2, TD1Line3>>>>

\* Most lines of a generated text.
MaxLines == 4

\* Longest name field generated byte by byte.
MaxNameLen == 4

\* n lines taken in turn from specimen document b.
DocLines(b, n) == [j \in 1..n |-> Bases[b][((j - 1) % Len(Bases[b])) + 1]]

\* A line cut, or extended with fillers, to len bytes.
Resize(line, len) ==
    IF len <= Len(line) THEN SubSeq(line, 1, len)
    ELSE line \o Repeat("<", len - Len(line))

\* A line with the byte at position p (from 1) replaced by the bytes ch.
Put(line, p, ch) == SubSeq(line, 1, p - 1) \o ch \o SubSeq(line, p + 1, Len(line))

\* Lengths around the filter's 20, the three format widths and the TD3 threshold.
LineLens == {19, 20, 21, 29, 30, 31, 35, 36, 37, 39, 40, 41, 43, 44, 45}

\* Positions edited in a line of len bytes: its start, the field ranges, its end.
EditPositions(len) == {1, 3, 9, 14, 16, 22, 24, len} \cap (1..len)

\* What an edit writes: U+00C9, letter O, digit 0, filler, space, lower-case o, tab.
EditChars == {<<"C3", "89">>, <<"O">>, <<"0">>, <<"<">>, <<" ">>, <<"o">>, <<"\t">>}

RECURSIVE JoinLines(_)
\* The lines with a newline between each two.
JoinLines(lines) ==
    IF lines = <<>> THEN <<>>
    ELSE IF Len(lines) = 1 THEN lines[1]
    ELSE lines[1] \o <<"\n">> \o JoinLines(Tail(lines))

\* n specimen lines of document b, line i resized to len bytes and then
\* edited at position p.
EditedText(b, n, i, len, p, ch) ==
    JoinLines([DocLines(b, n) EXCEPT ![i] = Put(Resize(@, len), p, ch)])

\* n specimen lines of document b as they are, each after a noise line and
\* an empty line when noisy, each ended by "\r\n" when crlf.
PlainText(b, n, noisy, crlf) ==
    LET end == IF crlf THEN <<"\r", "\n">> ELSE <<"\n">>
        one(l) == (IF noisy THEN NoiseLine \o end \o end ELSE <<>>) \o l \o end
        RECURSIVE all(_)
        all(ls) == IF ls = <<>> THEN <<>> ELSE one(Head(ls)) \o all(Tail(ls))
    IN  all(DocLines(b, n))

NameAlphabet == {"A", "<", "0"}

\* Every name field of at most MaxNameLen bytes.
NameFields == UNION {[1..k -> NameAlphabet] : k \in 0..MaxNameLen}

\* A text whose name field starts with nf: the TD3 specimen (k = 1), a TD2
\* document whose first line is 20 bytes long (k = 2), the TD1 specimen
\* (k = 3).
NameText(k, nf) ==
    IF k = 1
    THEN JoinLines(<<SubSeq(TD3Line1, 1, 5) \o nf \o Repeat("<", 39 - Len(nf)), TD3Line2>>)
    ELSE IF k = 2
    THEN JoinLines(<<SubSeq(TD2Line1, 1, 5) \o nf \o Repeat("<", 15 - Len(nf)), TD2Line2>>)
    ELSE JoinLines(<<TD1Line1, TD1Line2, nf \o Repeat("<", 30 - Len(nf))>>)

\* The specimen passport as a careless OCR pass writes it.
MessyText ==
    NoiseLine \o <<"\r", "\n">> \o MessyLine1 \o <<"\r", "\n", "\n", " ">>
    \o to_uppercase(TD3Line2) \o <<" ", "\r">>

(***************************************************************************)
(* The caller: one call at a time, each a function of its arguments.       *)
(***************************************************************************)

Init ==
    /\ qrCall = NoCall
    /\ qrResult = NoCall
    /\ mrzCall = NoCall
    /\ mrzResult = NoCall

Idle == qrCall = NoCall /\ mrzCall = NoCall

\* A call of decode_qr_from_image, start to return.
DecodeQr ==
    /\ Idle
    /\ \E len \in BufferLens, width \in Dims, height \in Dims, debug \in BOOLEAN,
          grids \in GridLists, tiles \in TileScenes :
          /\ qrCall' = [tag |-> "Call", len |-> len, width |-> width,
                        height |-> height, debug |-> debug, grids |-> grids,
                        tiles |-> tiles]
          /\ qrResult' = decode_qr_from_image(len, width, height, debug, grids)
    /\ UNCHANGED <<mrzCall, mrzResult>>

\* A call of parse_mrz_text on mrz_text, start to return.
ParseMrzText(mrz_text) ==
    /\ mrzCall' = [tag |-> "Call", text |-> mrz_text]
    /\ mrzResult' = parse_mrz_text(mrz_text)
    /\ UNCHANGED <<qrCall, qrResult>>

\* The call on specimen lines of which one is resized and edited.
ParseEdited ==
    /\ Idle
    /\ \E b \in 1..Len(Bases), n \in 1..MaxLines, len \in LineLens, ch \in EditChars :
          \E i \in 1..n, p \in EditPositions(len) :
              ParseMrzText(EditedText(b, n, i, len, p, ch))

\* The call on specimen lines as they are.
ParsePlain ==
    /\ Idle
    /\ \E b \in 1..Len(Bases), n \in 0..MaxLines, noisy \in BOOLEAN, crlf \in BOOLEAN :
          ParseMrzText(PlainText(b, n, noisy, crlf))

\* The call on a document with a generated name field.
ParseNames ==
    /\ Idle
    /\ \E k \in 1..3, nf \in NameFields : ParseMrzText(NameText(k, nf))

\* The call on the carelessly written specimen.
ParseMessy ==
    /\ Idle
    /\ ParseMrzText(MessyText)

\* The caller has the result; the next call starts from nothing.
Return ==
    /\ ~Idle
    /\ qrCall' = NoCall
    /\ qrResult' = NoCall
    /\ mrzCall' = NoCall
    /\ mrzResult' = NoCall

NextQR == DecodeQr \/ Return

NextMRZ == ParseEdited \/ ParsePlain \/ ParseNames \/ ParseMessy \/ Return

Next == NextQR \/ NextMRZ

Spec == Init /\ [][Next]_vars

\* The calls of decode_qr_from_image alone.
SpecQR == Init /\ [][NextQR]_vars

\* The calls of parse_mrz_text alone.
SpecMRZ == Init /\ [][NextMRZ]_vars

\* The specimen TD3 text of the MRZ round trip.
SpecimenTD3 == JoinLines(<<TD3Line1, TD3Line2>>)

(***************************************************************************)
(* Vocabulary of the properties.                                           *)
(***************************************************************************)

QrReturned == qrCall.tag = "Call"

MrzReturned == mrzCall.tag = "Call"

\* The exact integer width * height * 4, twelve digits.
ExactSize(width, height) ==
    BigMul(BigMul(ToDigits(width), ToDigits(height)), ToDigits(4))

\* The buffer of the call has exactly width * height * 4 bytes.
ValidBuffer ==
    PadDigits(ToDigits(qrCall.len), 12) = ExactSize(qrCall.width, qrCall.height)

\* The grids of the call that decode, in detector order.
Decodable == SelectSeq(qrCall.grids, LAMBDA g : g.decodes)

\* The (region, scale) combinations in the order the fallback is to visit them.
TileOrder ==
    <<<<0, 0, 15>>, <<0, 0, 20>>, <<0, 0, 25>>, <<0, 1, 15>>, <<0, 1, 20>>, <<0, 1, 25>>,
      <<1, 0, 15>>, <<1, 0, 20>>, <<1, 0, 25>>, <<1, 1, 15>>, <<1, 1, 20>>, <<1, 1, 25>>>>

\* The payloads a fallback with early exit is to return for a frame.
FallbackPayloads(tiles) ==
    LET hits == {k \in 1..Len(TileOrder) : tiles[TileOrder[k]] # ""}
    IN  IF hits = {} THEN <<>>
        ELSE <<tiles[TileOrder[CHOOSE k \in hits : \A j \in hits : k <= j]]>>

\* The lines of the call's text that survive normalization.
Surviving == MrzLines(mrzCall.text)

Record == mrzResult.value

TD(n) == <<"T", "D", n>>

\* The width and the line count a document type fixes.
WidthOf(type) == IF type = TD("1") THEN 30 ELSE IF type = TD("2") THEN 36 ELSE 44

CountOf(type) == IF type = TD("1") THEN 3 ELSE 2

\* The characters of a string: each a sequence of one or more bytes.
CharStarts(s) == {i \in 1..Len(s) : ~IsContinuation(s[i])}

\* The bytes of the characters start..end-1 (from 0) of a string, as many as it has.
CharRange(s, start, end) ==
    SelectSeq([i \in 1..Len(s) |->
                  <<s[i], Cardinality({j \in CharStarts(s) : j <= i}) - 1>>],
              LAMBDA bc : bc[2] >= start /\ bc[2] < end)

Bytes(pairs) == [i \in 1..Len(pairs) |-> pairs[i][1]]

(***************************************************************************)
(* Properties.                                                             *)
(***************************************************************************)

\* C1: whenever the buffer length differs from the exact integer
\* width * height * 4, the call returns the invalid-buffer-size error (and
\* so reaches neither grid detection nor pixel indexing).
C1_WrongLengthIsAnError ==
    QrReturned /\ ~ValidBuffer
    => qrResult.tag = "Err" /\ qrResult.kind = "InvalidBufferSize"

\* C2: the outcome of parse_mrz_text is decided by the number n of
\* surviving lines alone: NoValidLines for n = 0, UnsupportedLineCount for
\* n = 1 and n >= 4, a record for n = 2 and n = 3; no input aborts the call.
C2_OutcomeByLineCount ==
    MrzReturned =>
        LET n == Len(Surviving)
        IN  /\ n = 0 => mrzResult.tag = "Err" /\ mrzResult.kind = "NoValidLines"
            /\ n = 1 \/ n >= 4 =>
                   mrzResult.tag = "Err" /\ mrzResult.kind = "UnsupportedLineCount"
            /\ n = 2 \/ n = 3 => mrzResult.tag = "Ok"

\* C3: when the standard pass finds no code on a frame of at least 400x400
\* pixels, the call returns what the region-tiling fallback finds: the code
\* of the first (region, scale) combination, in the fixed order, that has one.
C3_FallbackReturnsFirstCode ==
    /\ QrReturned /\ ValidBuffer /\ Decodable = <<>>
    /\ qrCall.width >= 400 /\ qrCall.height >= 400
    => /\ qrResult.tag = "Ok"
       /\ [i \in 1..Len(qrResult.results) |-> qrResult.results[i].data]
              = FallbackPayloads(qrCall.tiles)

\* C4: over a valid buffer the standard pass returns, without error, exactly
\* one result per grid that decodes, in detector order, with that grid's
\* content, version and four points; a grid that fails adds nothing.
C4_OneResultPerDecodedGrid ==
    QrReturned /\ ValidBuffer
    => /\ qrResult.tag = "Ok"
       /\ Len(qrResult.results) = Len(Decodable)
       /\ \A k \in 1..Len(Decodable) :
              /\ qrResult.results[k].data = Decodable[k].content
              /\ qrResult.results[k].version = Decodable[k].version
              /\ qrResult.results[k].bounds = Decodable[k].bounds
              /\ Len(qrResult.results[k].bounds) = 4

\* C4 witness: a call over a valid buffer where a grid failed between two
\* that decoded.
C4_Witness ==
    /\ QrReturned /\ ValidBuffer
    /\ qrCall.grids = <<GridB, GridBad, GridA>>
    /\ qrResult.tag = "Ok" /\ Len(qrResult.results) = 2

\* C5: three surviving lines give TD1; two give TD3 when the first has
\* length at least 40 and TD2 when it is shorter.
C5_ClassifiedByCountAndFirstLength ==
    MrzReturned =>
        LET n == Len(Surviving)
        IN  /\ n = 3 => mrzResult.tag = "Ok" /\ Record.document_type = TD("1")
            /\ n = 2 /\ Len(Surviving[1]) >= 40 =>
                   mrzResult.tag = "Ok" /\ Record.document_type = TD("3")
            /\ n = 2 /\ Len(Surviving[1]) < 40 =>
                   mrzResult.tag = "Ok" /\ Record.document_type = TD("2")

\* C6: in every record, raw_mrz has the line count of its document type and
\* every line has that type's width in characters.
C6_RawLinesHaveFormatWidth ==
    MrzReturned /\ mrzResult.tag = "Ok"
    => /\ Len(Record.raw_mrz) = CountOf(Record.document_type)
       /\ \A i \in 1..Len(Record.raw_mrz) :
              CharCount(Record.raw_mrz[i]) = WidthOf(Record.document_type)

\* The fields of the specimen passport other than sex.
SpecimenFields ==
    /\ mrzResult.tag = "Ok"
    /\ Record.document_type = TD("3")
    /\ Record.issuing_country = <<"U", "T", "O">>
    /\ Record.surname = <<"E", "R", "I", "K", "S", "S", "O", "N">>
    /\ Record.given_names = <<"A", "N", "N", "A", " ", "M", "A", "R", "I", "A">>
    /\ Record.document_number = <<"L", "8", "9", "8", "9", "0", "2", "C", "3">>
    /\ Record.nationality = <<"U", "T", "O">>
    /\ Record.date_of_birth = <<"7", "4", "0", "8", "1", "2">>
    /\ Record.date_of_expiry = <<"1", "2", "0", "4", "1", "5">>
    /\ Record.confidence = 75

\* C7 as stated: the specimen passport parses to the listed fields, with sex "M".
C7_SpecimenSexM ==
    MrzReturned /\ mrzCall.text = SpecimenTD3
    => SpecimenFields /\ Record.sex = <<"M">>

\* C7 as amended: the specimen passport parses to the listed fields, with
\* sex "F", the character at offset 20 of its second line.
C7_SpecimenSexF ==
    MrzReturned /\ mrzCall.text = SpecimenTD3
    => SpecimenFields /\ Record.sex = <<"F">>

\* C7 witness: the specimen passport was parsed.
C7_Witness ==
    MrzReturned /\ mrzCall.text = SpecimenTD3 /\ mrzResult.tag = "Ok"

\* C8: a surviving line shorter than the format width is returned followed
\* by fillers '<' up to the width, a longer one cut to the width; so a TD2
\* record from a 20-character second line has an empty optional_data.
C8_PaddedWithFiller ==
    MrzReturned /\ mrzResult.tag = "Ok"
    => LET w == WidthOf(Record.document_type)
       IN  /\ \A i \in 1..Len(Record.raw_mrz) :
                  Record.raw_mrz[i] =
                      IF Len(Surviving[i]) < w
                      THEN Surviving[i] \o Repeat("<", w - Len(Surviving[i]))
                      ELSE SubSeq(Surviving[i], 1, w)
           /\ Record.document_type = TD("2") /\ Len(Surviving[2]) = 20
                  => Record.optional_data = <<>>

\* The offset (from 1) of the first "<<" of a string, 0 when it has none.
FirstDelimiter(s) ==
    LET at == {i \in 1..(Len(s) - 1) : s[i] = "<" /\ s[i + 1] = "<"}
    IN  IF at = {} THEN 0 ELSE CHOOSE i \in at : \A j \in at : i <= j

\* What comes before the first "<<" of a string: all of it when there is none.
FirstSegment(s) ==
    IF FirstDelimiter(s) = 0 THEN s ELSE SubSeq(s, 1, FirstDelimiter(s) - 1)

\* What comes between the first "<<" and the next, empty when there is no "<<".
SecondSegment(s) ==
    IF FirstDelimiter(s) = 0 THEN <<>>
    ELSE FirstSegment(SubSeq(s, FirstDelimiter(s) + 2, Len(s)))

\* A segment with '<' as space, trimmed, and digit 0 as letter O.
Corrected(seg) ==
    LET spaced == [i \in 1..Len(seg) |-> IF seg[i] = "<" THEN " " ELSE seg[i]]
        inner == {i \in 1..Len(spaced) : ~IsWhitespace(spaced[i])}
        lo == CHOOSE i \in inner : \A j \in inner : i <= j
        hi == CHOOSE i \in inner : \A j \in inner : i >= j
        trimmed == IF inner = {} THEN <<>> ELSE SubSeq(spaced, lo, hi)
    IN  [i \in 1..Len(trimmed) |-> IF trimmed[i] = "0" THEN "O" ELSE trimmed[i]]

\* The name field of a record: its third line (TD1), or its first line from
\* offset 5 to the format width.
NameFieldOf(rec) ==
    IF rec.document_type = TD("1") THEN rec.raw_mrz[3]
    ELSE LET l == rec.raw_mrz[1]
             w == WidthOf(rec.document_type)
         IN  SubSeq(l, 6, IF w < Len(l) THEN w ELSE Len(l))

\* A name as the claim describes it: no filler, no digit 0, no space at
\* either end.
CleanedName(name) ==
    /\ \A i \in 1..Len(name) : name[i] # "<" /\ name[i] # "0"
    /\ name # <<>> => ~IsWhitespace(name[1]) /\ ~IsWhitespace(name[Len(name)])

\* C9: in every record, surname is the first "<<"-separated segment of the
\* name field and given_names the second (empty when there is none), each
\* with '<' turned to space, trimmed and digit 0 turned to letter O; so
\* neither holds a '<', a digit 0 or a space at either end, and later
\* segments are ignored.
C9_NamesSplitAndCorrected ==
    MrzReturned /\ mrzResult.tag = "Ok"
    => /\ Record.surname = Corrected(FirstSegment(NameFieldOf(Record)))
       /\ Record.given_names = Corrected(SecondSegment(NameFieldOf(Record)))
       /\ CleanedName(Record.surname)
       /\ CleanedName(Record.given_names)

\* C9 witness: the carelessly written specimen, whose surname holds a digit
\* 0 and whose name field has a third segment, was parsed.
C9_Witness ==
    /\ MrzReturned /\ mrzCall.text = MessyText /\ mrzResult.tag = "Ok"
    /\ \E i \in 1..Len(FirstSegment(NameFieldOf(Record))) :
           FirstSegment(NameFieldOf(Record))[i] = "0"
    /\ Record.surname = <<"E", "R", "I", "K", "S", "S", "O", "N">>
    /\ Record.given_names = <<"A", "N", "N", "A", " ", "M", "A", "R", "I", "A">>

\* C10: in every record, date_of_birth is the six characters of the date of
\* birth range of its normalized second line ([0,6) for TD1, [13,19) for TD2
\* and TD3) with letter O turned to digit 0, and date_of_expiry is the six
\* characters of the expiry range ([8,14), [21,27)) unchanged.
C10_BirthCorrectedExpiryNot ==
    MrzReturned /\ mrzResult.tag = "Ok"
    => LET td1 == Record.document_type = TD("1")
           line2 == Record.raw_mrz[2]
           birth == Bytes(CharRange(line2, IF td1 THEN 0 ELSE 13, IF td1 THEN 6 ELSE 19))
           expiry == Bytes(CharRange(line2, IF td1 THEN 8 ELSE 21, IF td1 THEN 14 ELSE 27))
       IN  /\ Record.date_of_birth =
                  [i \in 1..Len(birth) |-> IF birth[i] = "O" THEN "0" ELSE birth[i]]
           /\ Record.date_of_expiry = expiry

====
